---- MODULE Spec2Model ----
(***************************************************************************)
(* The gateway of api/main.py: HTTP handlers push a job on the Redis list  *)
(* gpu_tasks and then either poll result:<id> (wait_for_result) or relay   *)
(* stream:<id> and result:<id> as server-sent events                       *)
(* (stream_completion_response).  The GPU worker is an external process;   *)
(* it is modelled from the broker protocol of the specification.           *)
(*                                                                         *)
(* Every coroutine is cut at its await points: one action per broker       *)
(* command or sleep, so that the worker's writes and the other requests    *)
(* interleave with it exactly where the event loop can switch.             *)
(*                                                                         *)
(* Time is counted in milliseconds.  elapsed[id] is the value of           *)
(* time.time() - start_time of the coroutine serving id; it advances only  *)
(* in asyncio.sleep (broker round trips are taken as instantaneous).       *)
(***************************************************************************)
EXTENDS Integers, Sequences, FiniteSets, TLC

\* ---------------------------------------------------------------- bounds
\* The timeouts of the source are 30 s and 300 s; they are scaled down to a
\* few poll intervals, the sleeps keep their values in milliseconds.
MaxChunks == 2
HandlerTimeout == 100
DefaultTimeout == 200
StreamTimeout == 51

\* ------------------------------------------------------ program constants
WaitSleep == 100
StreamSleep == 50
ChunkSleep == 1

\* The ids uuid.uuid4() can return in a run.
Ids == {1, 2}

VARIABLES
    redis_str,            \* broker: string keys (None = no such key)
    redis_list,           \* broker: list keys (<<>> = no such key)
    budget,               \* HTTP requests the clients still send
    kind,                 \* per id: "none", "rejected", "wait", "stream"
    endpoint,             \* per id: the endpoint of the job
    timeout,              \* per id: the timeout of the wait or relay
    pc,                   \* per id: position of the coroutine
    elapsed,              \* per id: time.time() - start_time, in ms
    result,               \* per id: the local result (the decoded Result)
    ret,                  \* per id: what wait_for_result returned or raised
    status,               \* per id: how the coroutine ended
    chunks_sent,          \* per id: relay local
    last_chunk_count,     \* per id: relay local
    current_chunk_count,  \* per id: relay local
    new_chunks,           \* per id: relay local, the chunks still to yield
    out,                  \* per id: the frames the relay has yielded
    claimed,              \* worker: ids popped from gpu_tasks
    appended,             \* history: every chunk the worker appended for id
    written,              \* history: the Result the worker wrote for id
    intime,               \* history: Result written before the deadline
    accessed,             \* history: keys the coroutine for id sent commands on
    deleted,              \* history: keys the coroutine for id has deleted
    fetched,              \* history: list indices lrange returned to the relay
    tick_chunks           \* history: chunks yielded since the last loop test

brokerVars == <<redis_str, redis_list>>
reqVars == <<budget, kind, endpoint, timeout>>
waitVars == <<result, ret, status>>
relayVars == <<chunks_sent, last_chunk_count, current_chunk_count, new_chunks,
               out, fetched, tick_chunks>>
workerVars == <<claimed, appended, written, intime>>
vars == <<redis_str, redis_list, budget, kind, endpoint, timeout, pc, elapsed,
          result, ret, chunks_sent, last_chunk_count, current_chunk_count,
          new_chunks, out, status, claimed, appended, written, intime,
          accessed, deleted, fetched, tick_chunks>>

\* ------------------------------------------------------------ broker keys
TasksKey == <<"gpu_tasks">>
ResultKey(task_id) == <<"result", task_id>>
\* (mutant) the key built without the task id
StreamKey_shared(task_id) == <<"stream", 0>>
StreamKey(task_id) == <<"stream", task_id>>
Keys == {TasksKey} \cup {ResultKey(i) : i \in Ids} \cup {StreamKey(i) : i \in Ids}

\* ------------------------------------------------------- values and JSON
\* A Redis string is [json |-> v], the JSON text of the value v, or
\* [raw |-> t], a text t that is no JSON document.  None is Python's None.
None == [none |-> TRUE]
Garbage == [raw |-> "{not json"]

JsonDumps(v) == [json |-> v]
WellFormed(s) == "json" \in DOMAIN s
JsonLoads(s) == s.json

\* Python truthiness of what redis get returns (decode_responses=True).
Truthy(s) == s # None /\ s # [raw |-> ""]

\* dict.get(key, default)
Get(d, key, default) == IF key \in DOMAIN d THEN d[key] ELSE default

\* f"data: {json}\n\n": a frame is the event's JSON text; site names the
\* yield statement that produced it.
Frame(site, v) == [site |-> site, data |-> JsonDumps(v)]

TimeoutResult == [error |-> "Request timeout"]
StreamingError(e) == [error |-> "Streaming error: " \o e]

\* ------------------------------------------------------------- the worker
\* What a worker writes, by the broker protocol: chunks
\* {content, stop, ...} appended to stream:<id>, then one Result
\* {error} or {data} under result:<id>.
Token(id, n) == <<id, n>>
Chunk(id, n) == JsonDumps([content |-> <<Token(id, n)>>, stop |-> FALSE])
ChunksFor(id, n) == {Chunk(id, n), Garbage}

Results ==
    { JsonDumps([error |-> "boom"]),
      JsonDumps([error |-> "Request timeout"]),
      JsonDumps([data |-> [stop |-> TRUE, slot_id |-> 2]]),
      JsonDumps([data |-> [text |-> "42"]]),
      JsonDumps([data |-> [stop |-> TRUE, model |-> "m"]]),
      Garbage,
      [raw |-> ""] }

\* --------------------------------------------------------------- broker
GET(key) == redis_str[key]
LLEN(key) == Len(redis_list[key])
\* lrange with 0-based inclusive indices, clipped to the list
LRANGE(key, start, stop) ==
    LET l == redis_list[key]
        hi == IF stop + 1 > Len(l) THEN Len(l) ELSE stop + 1
    IN  SubSeq(l, start + 1, hi)
DELETE(key) ==
    /\ redis_str' = [redis_str EXCEPT ![key] = None]
    /\ redis_list' = [redis_list EXCEPT ![key] = <<>>]
\* (mutant) the job pushed twice
LPUSH_twice(key, v) ==
    /\ redis_list' = [redis_list EXCEPT ![key] = <<v, v>> \o @]
    /\ UNCHANGED redis_str
LPUSH(key, v) ==
    /\ redis_list' = [redis_list EXCEPT ![key] = <<v>> \o @]
    /\ UNCHANGED redis_str

\* The coroutine serving id sends a command on key.
Access(id, key) == accessed' = [accessed EXCEPT ![id] = @ \cup {key}]

\* ------------------------------------------------------------------ Init
Init ==
    /\ redis_str = [k \in Keys |-> None]
    /\ redis_list = [k \in Keys |-> <<>>]
    /\ budget = 1
    /\ kind = [i \in Ids |-> "none"]
    /\ endpoint = [i \in Ids |-> "none"]
    /\ timeout = [i \in Ids |-> 0]
    /\ pc = [i \in Ids |-> "idle"]
    /\ elapsed = [i \in Ids |-> 0]
    /\ result = [i \in Ids |-> None]
    /\ ret = [i \in Ids |-> None]
    /\ chunks_sent = [i \in Ids |-> FALSE]
    /\ last_chunk_count = [i \in Ids |-> 0]
    /\ current_chunk_count = [i \in Ids |-> 0]
    /\ new_chunks = [i \in Ids |-> <<>>]
    /\ out = [i \in Ids |-> <<>>]
    /\ status = [i \in Ids |-> "none"]
    /\ claimed = {}
    /\ appended = [i \in Ids |-> <<>>]
    /\ written = [i \in Ids |-> None]
    /\ intime = [i \in Ids |-> FALSE]
    /\ accessed = [i \in Ids |-> {}]
    /\ deleted = [i \in Ids |-> {}]
    /\ fetched = [i \in Ids |-> <<>>]
    /\ tick_chunks = [i \in Ids |-> 0]

\* ---------------------------------------------------------------- handlers
\* task_id = str(uuid.uuid4()); lpush("gpu_tasks", {...}); then the wait or
\* the relay starts with start_time = time.time().  A failed lpush raises
\* and the handler answers 500 without polling.
Enqueue(id, ep, k, t) ==
    /\ budget > 0
    /\ kind[id] = "none"
    /\ budget' = budget - 1
    /\ endpoint' = [endpoint EXCEPT ![id] = ep]
    /\ \E fault \in BOOLEAN :
        IF fault
        THEN /\ kind' = [kind EXCEPT ![id] = "rejected"]
             /\ UNCHANGED <<brokerVars, timeout, pc>>
        ELSE /\ LPUSH(TasksKey, [id |-> id, endpoint |-> ep])
             /\ kind' = [kind EXCEPT ![id] = k]
             /\ timeout' = [timeout EXCEPT ![id] = t]
             /\ pc' = [pc EXCEPT ![id] = "poll"]
    /\ UNCHANGED <<elapsed, waitVars, relayVars, workerVars, accessed, deleted>>

get_template(id) == Enqueue(id, "template", "wait", HandlerTimeout)
tokenize(id) == Enqueue(id, "tokenize", "wait", HandlerTimeout)
handle_slots(id) == Enqueue(id, "slots", "wait", HandlerTimeout)
completion(id, stream) ==
    IF stream
    THEN Enqueue(id, "completion", "stream", StreamTimeout)
    ELSE Enqueue(id, "completion", "wait", DefaultTimeout)

\* ---------------------------------------------------------- wait_for_result
Close(id, st) ==
    /\ pc' = [pc EXCEPT ![id] = "closed"]
    /\ status' = [status EXCEPT ![id] = st]

Return(id, v, st) ==
    /\ ret' = [ret EXCEPT ![id] = [returned |-> v]]
    /\ Close(id, st)

\* An exception leaves wait_for_result (it has no handler of its own).
Raise(id, e) ==
    /\ ret' = [ret EXCEPT ![id] = [raised |-> e]]
    /\ Close(id, "failed")

\* (mutant) the deadline tested with <= for <
Expired_le(id) == ~(elapsed[id] <= timeout[id])

\* The loop test of lines 215 and 237
Expired(id) == ~(elapsed[id] < timeout[id])

\* One pass of the loop up to its next await: the test of line 215, the get
\* and json.loads; past the deadline, the return of line 226.
WaitPoll(id) ==
    /\ kind[id] = "wait" /\ pc[id] = "poll"
    /\ IF Expired(id)
       THEN /\ Return(id, TimeoutResult, "timedout")
            /\ UNCHANGED <<result, accessed>>
       ELSE /\ Access(id, ResultKey(id))
            /\ \E fault \in BOOLEAN :
                LET result_data == GET(ResultKey(id)) IN
                IF fault
                THEN Raise(id, "ConnectionError") /\ UNCHANGED result
                ELSE IF Truthy(result_data)
                THEN IF WellFormed(result_data)
                     THEN /\ result' = [result EXCEPT ![id] = JsonLoads(result_data)]
                          /\ pc' = [pc EXCEPT ![id] = "delete"]
                          /\ UNCHANGED <<ret, status>>
                     ELSE Raise(id, "JSONDecodeError") /\ UNCHANGED result
                ELSE /\ pc' = [pc EXCEPT ![id] = "sleep"]
                     /\ UNCHANGED <<result, ret, status>>
    /\ UNCHANGED <<brokerVars, reqVars, elapsed, relayVars, workerVars, deleted>>

\* (mutant) the wait cleaning up like the relay: stream_key deleted too
WaitDelete_both(id) ==
    /\ kind[id] = "wait" /\ pc[id] = "delete"
    /\ Access(id, ResultKey(id))
    /\ \E fault \in BOOLEAN :
        IF fault
        THEN Raise(id, "ConnectionError") /\ UNCHANGED <<brokerVars, deleted>>
        ELSE /\ redis_str' = [redis_str EXCEPT ![ResultKey(id)] = None]
             /\ redis_list' = [redis_list EXCEPT ![StreamKey(id)] = <<>>]
             /\ deleted' = [deleted EXCEPT ![id] = @ \cup {ResultKey(id)}]
             /\ Return(id, result[id], "done")
    /\ UNCHANGED <<reqVars, elapsed, result, relayVars, workerVars>>

\* await redis_client.delete(result_key); return result (lines 221-222)
WaitDelete(id) ==
    /\ kind[id] = "wait" /\ pc[id] = "delete"
    /\ Access(id, ResultKey(id))
    /\ \E fault \in BOOLEAN :
        IF fault
        THEN Raise(id, "ConnectionError") /\ UNCHANGED <<brokerVars, deleted>>
        ELSE /\ DELETE(ResultKey(id))
             /\ deleted' = [deleted EXCEPT ![id] = @ \cup {ResultKey(id)}]
             /\ Return(id, result[id], "done")
    /\ UNCHANGED <<reqVars, elapsed, result, relayVars, workerVars>>

\* await asyncio.sleep(0.1) (line 224)
WaitSleepDone(id) ==
    /\ kind[id] = "wait" /\ pc[id] = "sleep"
    /\ elapsed' = [elapsed EXCEPT ![id] = @ + WaitSleep]
    /\ pc' = [pc EXCEPT ![id] = "poll"]
    /\ UNCHANGED <<brokerVars, reqVars, waitVars, relayVars, workerVars,
                   accessed, deleted>>

\* ------------------------------------------------ stream_completion_response
Yield(id, f) == out' = [out EXCEPT ![id] = Append(@, f)]

\* (mutant) the exception swallowed and the loop going on to its next tick
RelayFail_retry(id, e) ==
    /\ pc' = [pc EXCEPT ![id] = "sleep"]
    /\ UNCHANGED <<out, status>>

\* except Exception as e: yield the wrapped error and return (lines 305-311)
RelayFail(id, e) ==
    /\ Yield(id, Frame("exception", StreamingError(e)))
    /\ Close(id, "failed")

\* (mutant) the timeout path cleaning up like the Result path
RelayTimeout_cleanup(id) ==
    /\ Yield(id, Frame("timeout", TimeoutResult))
    /\ Close(id, "timedout")
    /\ redis_str' = [redis_str EXCEPT ![ResultKey(id)] = None]
    /\ redis_list' = [redis_list EXCEPT ![StreamKey(id)] = <<>>]
    /\ deleted' = [deleted EXCEPT ![id] = @ \cup {ResultKey(id), StreamKey(id)}]

\* After the loop: the timeout frame (lines 313-318)
RelayTimeout(id) ==
    /\ Yield(id, Frame("timeout", TimeoutResult))
    /\ Close(id, "timedout")
    /\ UNCHANGED <<brokerVars, deleted>>

\* The loop test of line 237 and llen (line 242)
RelayLlen(id) ==
    /\ kind[id] = "stream" /\ pc[id] = "poll"
    /\ IF Expired(id)
       THEN /\ RelayTimeout(id)
            /\ UNCHANGED <<current_chunk_count, accessed, tick_chunks>>
       ELSE /\ Access(id, StreamKey(id))
            /\ tick_chunks' = [tick_chunks EXCEPT ![id] = 0]
            /\ UNCHANGED <<brokerVars, deleted>>
            /\ \E fault \in BOOLEAN :
                IF fault
                THEN RelayFail(id, "ConnectionError") /\ UNCHANGED current_chunk_count
                ELSE /\ current_chunk_count' =
                            [current_chunk_count EXCEPT ![id] = LLEN(StreamKey(id))]
                     /\ pc' = [pc EXCEPT ![id] =
                            IF LLEN(StreamKey(id)) > last_chunk_count[id]
                            THEN "lrange" ELSE "get"]
                     /\ UNCHANGED <<out, status>>
    /\ UNCHANGED <<reqVars, elapsed, result, ret, chunks_sent, last_chunk_count,
                   new_chunks, fetched, workerVars>>

\* lrange(stream_key, last_chunk_count, current_chunk_count - 1) (line 246)
RelayLrange(id) ==
    /\ kind[id] = "stream" /\ pc[id] = "lrange"
    /\ Access(id, StreamKey(id))
    /\ \E fault \in BOOLEAN :
        LET got == LRANGE(StreamKey(id), last_chunk_count[id],
                          current_chunk_count[id] - 1)
        IN
        IF fault
        THEN RelayFail(id, "ConnectionError") /\ UNCHANGED <<new_chunks, fetched>>
        ELSE /\ new_chunks' = [new_chunks EXCEPT ![id] = got]
             /\ fetched' = [fetched EXCEPT ![id] =
                    @ \o [n \in 1..Len(got) |-> last_chunk_count[id] + n]]
             /\ pc' = [pc EXCEPT ![id] = IF got # <<>> THEN "chunk" ELSE "get"]
             /\ UNCHANGED <<out, status>>
    /\ UNCHANGED <<brokerVars, reqVars, elapsed, result, ret, chunks_sent,
                   last_chunk_count, current_chunk_count, tick_chunks,
                   workerVars, deleted>>

\* (mutant) a chunk that is no JSON ends the relay like any other exception
RelayChunk_terminal(id) ==
    /\ kind[id] = "stream" /\ pc[id] = "chunk"
    /\ LET chunk_data == Head(new_chunks[id]) IN
        IF WellFormed(chunk_data)
        THEN /\ Yield(id, Frame("chunk", JsonLoads(chunk_data)))
             /\ chunks_sent' = [chunks_sent EXCEPT ![id] = TRUE]
             /\ elapsed' = [elapsed EXCEPT ![id] = @ + ChunkSleep]
             /\ tick_chunks' = [tick_chunks EXCEPT ![id] = @ + 1]
             /\ new_chunks' = [new_chunks EXCEPT ![id] = Tail(@)]
             /\ IF Tail(new_chunks[id]) = <<>>
                THEN /\ last_chunk_count' =
                         [last_chunk_count EXCEPT ![id] = current_chunk_count[id]]
                     /\ pc' = [pc EXCEPT ![id] = "get"]
                ELSE UNCHANGED <<last_chunk_count, pc>>
             /\ UNCHANGED status
        ELSE /\ RelayFail(id, "JSONDecodeError")
             /\ UNCHANGED <<chunks_sent, elapsed, tick_chunks, new_chunks,
                            last_chunk_count>>
    /\ UNCHANGED <<brokerVars, reqVars, result, ret, current_chunk_count, fetched,
                   workerVars, accessed, deleted>>

\* One turn of the for loop of lines 251-261, and line 263 after the last. A
\* chunk that is no JSON is logged and skipped.
RelayChunk(id) ==
    /\ kind[id] = "stream" /\ pc[id] = "chunk"
    /\ LET chunk_data == Head(new_chunks[id]) IN
        IF WellFormed(chunk_data)
        THEN /\ Yield(id, Frame("chunk", JsonLoads(chunk_data)))
             /\ chunks_sent' = [chunks_sent EXCEPT ![id] = TRUE]
             /\ elapsed' = [elapsed EXCEPT ![id] = @ + ChunkSleep]
             /\ tick_chunks' = [tick_chunks EXCEPT ![id] = @ + 1]
        ELSE UNCHANGED <<out, chunks_sent, elapsed, tick_chunks>>
    /\ new_chunks' = [new_chunks EXCEPT ![id] = Tail(@)]
    /\ IF Tail(new_chunks[id]) = <<>>
       THEN /\ last_chunk_count' =
                    [last_chunk_count EXCEPT ![id] = current_chunk_count[id]]
            /\ pc' = [pc EXCEPT ![id] = "get"]
       ELSE UNCHANGED <<last_chunk_count, pc>>
    /\ UNCHANGED <<brokerVars, reqVars, waitVars, current_chunk_count, fetched,
                   workerVars, accessed, deleted>>

EmptyObject == [k \in {} |-> TRUE]

\* if result.get("error")
HasError(r) == Get(r, "error", "") # ""

\* (mutant) the Result's data sent as a trailing frame when chunks were sent
\* and stop is not set
ResultFrames_trailing(sent, r) ==
    IF HasError(r)
    THEN <<Frame("error", [error |-> r.error])>>
    ELSE LET response_data == Get(r, "data", EmptyObject) IN
         IF sent /\ Get(response_data, "stop", FALSE)
         THEN <<Frame("final",
                      [content |-> <<>>,
                       multimodal |-> Get(response_data, "multimodal", FALSE),
                       slot_id |-> Get(response_data, "slot_id", 0),
                       stop |-> TRUE])>>
         ELSE <<Frame("complete", response_data)>>

\* (mutant) the final frame built from the Result's data: its metadata passed
\* through, content emptied, stop set
ResultFrames_passthrough(sent, r) ==
    IF HasError(r)
    THEN <<Frame("error", [error |-> r.error])>>
    ELSE LET response_data == Get(r, "data", EmptyObject) IN
         IF sent /\ Get(response_data, "stop", FALSE)
         THEN <<Frame("final",
                      [k \in DOMAIN response_data \cup {"content", "stop"} |->
                          IF k = "content" THEN <<>>
                          ELSE IF k = "stop" THEN TRUE
                          ELSE response_data[k]])>>
         ELSE IF ~sent
         THEN <<Frame("complete", response_data)>>
         ELSE <<>>

\* The frame, if any, that lines 273-296 yield for the decoded Result r when
\* chunks_sent is sent.
ResultFrames(sent, r) ==
    IF HasError(r)
    THEN <<Frame("error", [error |-> r.error])>>
    ELSE LET response_data == Get(r, "data", EmptyObject) IN
         IF sent /\ Get(response_data, "stop", FALSE)
         THEN <<Frame("final",
                      [content |-> <<>>,
                       multimodal |-> Get(response_data, "multimodal", FALSE),
                       slot_id |-> Get(response_data, "slot_id", 0),
                       stop |-> TRUE])>>
         ELSE IF ~sent
         THEN <<Frame("complete", response_data)>>
         ELSE <<>>

\* get(result_key) and, when the key is there, lines 270-296
RelayGet(id) ==
    /\ kind[id] = "stream" /\ pc[id] = "get"
    /\ Access(id, ResultKey(id))
    /\ \E fault \in BOOLEAN :
        LET result_data == GET(ResultKey(id)) IN
        IF fault
        THEN RelayFail(id, "ConnectionError") /\ UNCHANGED result
        ELSE IF Truthy(result_data)
        THEN IF WellFormed(result_data)
             THEN /\ result' = [result EXCEPT ![id] = JsonLoads(result_data)]
                  /\ out' = [out EXCEPT ![id] =
                        @ \o ResultFrames(chunks_sent[id], JsonLoads(result_data))]
                  /\ pc' = [pc EXCEPT ![id] = "del_result"]
                  /\ UNCHANGED status
             ELSE RelayFail(id, "JSONDecodeError") /\ UNCHANGED result
        ELSE /\ pc' = [pc EXCEPT ![id] = "sleep"]
             /\ UNCHANGED <<out, status, result>>
    /\ UNCHANGED <<brokerVars, reqVars, elapsed, ret, chunks_sent,
                   last_chunk_count, current_chunk_count, new_chunks, fetched,
                   tick_chunks, workerVars, deleted>>

\* (mutant) both deletes sent on result_key
CleanUp_result_key(id, key) ==
    /\ DELETE(ResultKey(id))
    /\ deleted' = [deleted EXCEPT ![id] = @ \cup {ResultKey(id)}]

\* await redis_client.delete(key), the clean-up of lines 299-300
CleanUp(id, key) ==
    /\ DELETE(key)
    /\ deleted' = [deleted EXCEPT ![id] = @ \cup {key}]

\* await redis_client.delete(result_key) (line 299)
RelayDeleteResult(id) ==
    /\ kind[id] = "stream" /\ pc[id] = "del_result"
    /\ Access(id, ResultKey(id))
    /\ \E fault \in BOOLEAN :
        IF fault
        THEN RelayFail(id, "ConnectionError") /\ UNCHANGED <<brokerVars, deleted>>
        ELSE /\ CleanUp(id, ResultKey(id))
             /\ pc' = [pc EXCEPT ![id] = "del_stream"]
             /\ UNCHANGED <<out, status>>
    /\ UNCHANGED <<reqVars, elapsed, result, ret, chunks_sent, last_chunk_count,
                   current_chunk_count, new_chunks, fetched, tick_chunks,
                   workerVars>>

\* await redis_client.delete(stream_key); return (lines 300-301)
RelayDeleteStream(id) ==
    /\ kind[id] = "stream" /\ pc[id] = "del_stream"
    /\ Access(id, StreamKey(id))
    /\ \E fault \in BOOLEAN :
        IF fault
        THEN RelayFail(id, "ConnectionError") /\ UNCHANGED <<brokerVars, deleted>>
        ELSE /\ CleanUp(id, StreamKey(id))
             /\ Close(id, "done")
             /\ UNCHANGED out
    /\ UNCHANGED <<reqVars, elapsed, result, ret, chunks_sent, last_chunk_count,
                   current_chunk_count, new_chunks, fetched, tick_chunks,
                   workerVars>>

\* (mutant) start_time taken anew on every pass of the loop
RelaySleepDone_restart(id) ==
    /\ kind[id] = "stream" /\ pc[id] = "sleep"
    /\ elapsed' = [elapsed EXCEPT ![id] = 0]
    /\ pc' = [pc EXCEPT ![id] = "poll"]
    /\ UNCHANGED <<brokerVars, reqVars, waitVars, relayVars, workerVars,
                   accessed, deleted>>

\* await asyncio.sleep(0.05) (line 303)
RelaySleepDone(id) ==
    /\ kind[id] = "stream" /\ pc[id] = "sleep"
    /\ elapsed' = [elapsed EXCEPT ![id] = @ + StreamSleep]
    /\ pc' = [pc EXCEPT ![id] = "poll"]
    /\ UNCHANGED <<brokerVars, reqVars, waitVars, relayVars, workerVars,
                   accessed, deleted>>

\* ---------------------------------------------------------------- worker
\* The worker pops the job at the other end of gpu_tasks.
WorkerPop ==
    /\ redis_list[TasksKey] # <<>>
    /\ LET l == redis_list[TasksKey]
           job == l[Len(l)]
       IN  /\ redis_list' = [redis_list EXCEPT ![TasksKey] = SubSeq(l, 1, Len(l) - 1)]
           /\ claimed' = claimed \cup {job.id}
    /\ UNCHANGED <<redis_str, reqVars, pc, elapsed, waitVars, relayVars,
                   appended, written, intime, accessed, deleted>>

\* rpush(stream:<id>, chunk), at most MaxChunks times and before the Result
WorkerAppend(id, chunks) ==
    /\ id \in claimed /\ written[id] = None
    /\ Len(appended[id]) < MaxChunks
    /\ \E c \in chunks :
        /\ redis_list' = [redis_list EXCEPT ![StreamKey(id)] = Append(@, c)]
        /\ appended' = [appended EXCEPT ![id] = Append(@, c)]
    /\ UNCHANGED <<redis_str, reqVars, pc, elapsed, waitVars, relayVars,
                   claimed, written, intime, accessed, deleted>>

\* The Result is written while the coroutine's clock reads elapsed[id]: during
\* a sleep it lands inside the sleep, else before the next poll.
SleepOf(id) == IF kind[id] = "wait" THEN WaitSleep ELSE StreamSleep
BeforeDeadline(id) ==
    IF pc[id] = "sleep"
    THEN elapsed[id] + SleepOf(id) <= timeout[id]
    ELSE pc[id] # "closed" /\ elapsed[id] < timeout[id]

\* set(result:<id>, Result), once
WorkerResult(id, results) ==
    /\ id \in claimed /\ written[id] = None
    /\ \E r \in results :
        /\ redis_str' = [redis_str EXCEPT ![ResultKey(id)] = r]
        /\ written' = [written EXCEPT ![id] = r]
    /\ intime' = [intime EXCEPT ![id] = BeforeDeadline(id)]
    /\ UNCHANGED <<redis_list, reqVars, pc, elapsed, waitVars, relayVars,
                   claimed, appended, accessed, deleted>>

\* ------------------------------------------------------------------ Next
WaitStep(id) == WaitPoll(id) \/ WaitDelete(id) \/ WaitSleepDone(id)
RelayStep(id) ==
    \/ RelayLlen(id)
    \/ RelayLrange(id)
    \/ RelayChunk(id)
    \/ RelayGet(id)
    \/ RelayDeleteResult(id)
    \/ RelayDeleteStream(id)
    \/ RelaySleepDone(id)

Next ==
    \/ \E id \in Ids : get_template(id)
    \/ \E id \in Ids : tokenize(id)
    \/ \E id \in Ids : handle_slots(id)
    \/ \E id \in Ids, stream \in BOOLEAN : completion(id, stream)
    \/ \E id \in Ids : WaitStep(id)
    \/ \E id \in Ids : RelayStep(id)
    \/ WorkerPop
    \/ \E id \in Ids : WorkerAppend(id, ChunksFor(id, Len(appended[id]) + 1))
    \/ \E id \in Ids : WorkerResult(id, Results)

Spec == Init /\ [][Next]_vars

\* The event loop runs every coroutine that is ready: a sleep ends and a
\* broker command returns or raises.
Fairness == \A id \in Ids : WF_vars(WaitStep(id)) /\ WF_vars(RelayStep(id))
FairSpec == Spec /\ Fairness

\* ---------------------------------------------------------------- claims
Closed(id) == pc[id] = "closed"
AllWellFormed(cs) == \A n \in 1..Len(cs) : WellFormed(cs[n])
ChunkFrames(cs) == [n \in 1..Len(cs) |-> Frame("chunk", JsonLoads(cs[n]))]
IsStopResult(r) ==
    /\ WellFormed(r)
    /\ ~HasError(JsonLoads(r))
    /\ Get(Get(JsonLoads(r), "data", EmptyObject), "stop", FALSE)

\* C1: when the worker appended N >= 1 (well-formed) chunks and then wrote a
\* Result whose data has stop = true, a relay that ends by reading that
\* Result has emitted exactly the N chunk frames, in append order, followed by
\* one synthetic stop frame.
C1_NoChunkLost ==
    \A id \in Ids :
        ( /\ kind[id] = "stream" /\ status[id] = "done"
          /\ appended[id] # <<>> /\ AllWellFormed(appended[id])
          /\ IsStopResult(written[id]) )
        => /\ Len(out[id]) = Len(appended[id]) + 1
           /\ SubSeq(out[id], 1, Len(appended[id])) = ChunkFrames(appended[id])
           /\ out[id][Len(out[id])].site = "final"

\* C2: when the Result was written before the timeout of wait_for_result had
\* elapsed (a write during the last sleep before the deadline included) and
\* wait_for_result has returned, it returned that Result and result:<id> is
\* gone.
C2_ResultInTimeReturned ==
    \A id \in Ids :
        ( /\ kind[id] = "wait" /\ Closed(id)
          /\ "returned" \in DOMAIN ret[id]
          /\ WellFormed(written[id]) /\ intime[id] )
        => /\ status[id] = "done"
           /\ ret[id].returned = JsonLoads(written[id])
           /\ redis_str[ResultKey(id)] = None

\* C3 (as stated): a call that ends on its deadline ends not before the timeout
\* and at most one poll interval after it.
C3_OnePollSlack ==
    \A id \in Ids :
        status[id] = "timedout"
        => /\ elapsed[id] >= timeout[id]
           /\ elapsed[id] <= timeout[id] + SleepOf(id)

\* The inter-chunk pauses of the relay's current tick (none in a wait).
Pauses(id) == IF kind[id] = "stream" THEN ChunkSleep * tick_chunks[id] ELSE 0

C3_Timing ==
    \A id \in Ids :
        /\ status[id] = "timedout"
           => /\ elapsed[id] >= timeout[id]
              /\ elapsed[id] < timeout[id] + SleepOf(id) + Pauses(id)
              /\ kind[id] = "wait" => ret[id] = [returned |-> TimeoutResult]
              /\ kind[id] = "stream"
                 => out[id][Len(out[id])] = Frame("timeout", TimeoutResult)
        /\ (kind[id] \in {"wait", "stream"} /\ pc[id] \notin {"poll", "closed"})
           => elapsed[id] - Pauses(id) < timeout[id]
        /\ (Closed(id) /\ result[id] = None)
           => /\ status[id] \in {"timedout", "failed"}
              /\ kind[id] = "wait" => ret[id] # None
              /\ kind[id] = "stream"
                 => out[id][Len(out[id])].site \in {"timeout", "exception"}

\* C3 (amended): with no Result, wait_for_result ends on its deadline with the
\* request-timeout outcome, not before the timeout and less than one poll
\* interval after it; the relay ends with the timeout frame not before the
\* timeout and less than one poll interval plus the inter-chunk pauses of its
\* last tick after it; no tick starts past the deadline; a call that read no
\* Result ends with a reported error (the timeout, or the exception of a broker
\* command that raised); and every call ends.
C3_Deadline ==
    /\ []C3_Timing
    /\ \A id \in Ids : (kind[id] \in {"wait", "stream"}) ~> Closed(id)

\* C3 witness: a relay that timed out more than one poll interval late.
C3_Witness ==
    \E id \in Ids :
        /\ kind[id] = "stream" /\ status[id] = "timedout"
        /\ written[id] = None
        /\ elapsed[id] > timeout[id] + StreamSleep

TokenIndex(f) == JsonLoads(f.data).content[1][2]

\* C4: chunk frames come out in the index order of stream:<id>, no list index
\* is fetched twice, and the synthetic stop frame, if any, is the last frame.
C4_OrderedOnce ==
    \A id \in Ids :
        /\ \A m, n \in 1..Len(out[id]) :
              (m < n /\ out[id][m].site = "chunk" /\ out[id][n].site = "chunk")
              => TokenIndex(out[id][m]) < TokenIndex(out[id][n])
        /\ \A m, n \in 1..Len(fetched[id]) :
              m < n => fetched[id][m] < fetched[id][n]
        /\ last_chunk_count[id] <= current_chunk_count[id]
        /\ \A n \in 1..Len(out[id]) :
              out[id][n].site = "final" => n = Len(out[id])

\* What holds of C4 in every run: the order, the single fetch, and a stop frame
\* followed by nothing but the exception frame of a clean-up that raised.
C4_ExceptFailedCleanUp ==
    \A id \in Ids :
        /\ \A m, n \in 1..Len(out[id]) :
              (m < n /\ out[id][m].site = "chunk" /\ out[id][n].site = "chunk")
              => TokenIndex(out[id][m]) < TokenIndex(out[id][n])
        /\ \A m, n \in 1..Len(fetched[id]) :
              m < n => fetched[id][m] < fetched[id][n]
        /\ last_chunk_count[id] <= current_chunk_count[id]
        /\ \A n \in 1..Len(out[id]) :
              out[id][n].site = "final"
              => \/ n = Len(out[id])
                 \/ /\ n = Len(out[id]) - 1
                    /\ out[id][n + 1].site = "exception"
                    /\ status[id] = "failed"

\* C5: at most one terminal frame is emitted and nothing follows it: every
\* frame but the last is a chunk frame.
C5_OneTerminal ==
    \A id \in Ids :
        \A n \in 1..Len(out[id]) :
            n < Len(out[id]) => out[id][n].site = "chunk"

\* C6: with no chunk ever appended, a relay that read a Result carrying data
\* has, when it ends, emitted exactly one frame, the Result's data.
C6_SinglePayload ==
    \A id \in Ids :
        ( /\ kind[id] = "stream" /\ Closed(id)
          /\ appended[id] = <<>>
          /\ result[id] # None /\ ~HasError(result[id]) )
        => out[id] = <<Frame("complete", result[id].data)>>

\* What holds of C6 when both deletes succeed (the relay returns at line 301).
C6_WhenReturned ==
    \A id \in Ids :
        ( /\ kind[id] = "stream" /\ status[id] = "done"
          /\ appended[id] = <<>> /\ ~HasError(result[id]) )
        => out[id] = <<Frame("complete", result[id].data)>>

\* C7: a relay that ends on its deadline has emitted chunk frames only and then
\* the timeout frame, has read no Result and deleted nothing: result:<id> and
\* stream:<id> hold exactly what the worker wrote.
C7_TimeoutLeavesBroker ==
    \A id \in Ids :
        (kind[id] = "stream" /\ status[id] = "timedout")
        => /\ out[id] # <<>>
           /\ out[id][Len(out[id])] = Frame("timeout", TimeoutResult)
           /\ \A n \in 1..(Len(out[id]) - 1) : out[id][n].site = "chunk"
           /\ result[id] = None
           /\ deleted[id] = {}
           /\ redis_str[ResultKey(id)] = written[id]
           /\ redis_list[StreamKey(id)] = appended[id]

C7_Witness ==
    \E id \in Ids :
        /\ kind[id] = "stream" /\ status[id] = "timedout"
        /\ Len(out[id]) >= 2
        /\ redis_str[ResultKey(id)] # None
        /\ redis_list[StreamKey(id)] # <<>>

C9_ErrorRelayed ==
    \A id \in Ids :
        ( /\ kind[id] = "stream" /\ Closed(id)
          /\ result[id] # None /\ HasError(result[id]) )
        => /\ out[id] # <<>>
           /\ out[id][Len(out[id])] = Frame("error", [error |-> result[id].error])
           /\ \A n \in 1..(Len(out[id]) - 1) : out[id][n].site = "chunk"
           /\ redis_str[ResultKey(id)] = None
           /\ redis_list[StreamKey(id)] = <<>>

\* What holds of C9 when both deletes succeed (the relay returns at line 301).
C9_WhenReturned ==
    \A id \in Ids :
        (kind[id] = "stream" /\ status[id] = "done" /\ HasError(result[id]))
        => /\ out[id][Len(out[id])] = Frame("error", [error |-> result[id].error])
           /\ \A n \in 1..(Len(out[id]) - 1) : out[id][n].site = "chunk"
           /\ redis_str[ResultKey(id)] = None
           /\ redis_list[StreamKey(id)] = <<>>

\* ------------------------------------------------- two concurrent requests
\* Two completion requests, each served by its own worker run; the workers
\* write well-formed chunks and one of two Results.
TwoResults ==
    { JsonDumps([error |-> "boom"]),
      JsonDumps([data |-> [stop |-> TRUE, slot_id |-> 2]]) }

InitTwo ==
    /\ redis_str = [k \in Keys |-> None]
    /\ redis_list = [k \in Keys |-> <<>>]
    /\ budget = 2
    /\ kind = [i \in Ids |-> "none"]
    /\ endpoint = [i \in Ids |-> "none"]
    /\ timeout = [i \in Ids |-> 0]
    /\ pc = [i \in Ids |-> "idle"]
    /\ elapsed = [i \in Ids |-> 0]
    /\ result = [i \in Ids |-> None]
    /\ ret = [i \in Ids |-> None]
    /\ chunks_sent = [i \in Ids |-> FALSE]
    /\ last_chunk_count = [i \in Ids |-> 0]
    /\ current_chunk_count = [i \in Ids |-> 0]
    /\ new_chunks = [i \in Ids |-> <<>>]
    /\ out = [i \in Ids |-> <<>>]
    /\ status = [i \in Ids |-> "none"]
    /\ claimed = {}
    /\ appended = [i \in Ids |-> <<>>]
    /\ written = [i \in Ids |-> None]
    /\ intime = [i \in Ids |-> FALSE]
    /\ accessed = [i \in Ids |-> {}]
    /\ deleted = [i \in Ids |-> {}]
    /\ fetched = [i \in Ids |-> <<>>]
    /\ tick_chunks = [i \in Ids |-> 0]

NextTwo ==
    \/ \E id \in Ids, stream \in BOOLEAN : completion(id, stream)
    \/ \E id \in Ids : WaitStep(id)
    \/ \E id \in Ids : RelayStep(id)
    \/ WorkerPop
    \/ \E id \in Ids : WorkerAppend(id, {Chunk(id, Len(appended[id]) + 1)})
    \/ \E id \in Ids : WorkerResult(id, TwoResults)

SpecTwo == InitTwo /\ [][NextTwo]_vars

OwnKeys(id) == {ResultKey(id), StreamKey(id)}

\* Every frame of the relay for id is one of the chunks appended for id or
\* comes from the Result written for id.
OwnFrames(id) ==
    \A n \in 1..Len(out[id]) :
        LET f == out[id][n] IN
        /\ f.site = "chunk"
           => \E m \in 1..Len(appended[id]) : f.data = appended[id][m]
        /\ f.site \in {"error", "final", "complete"}
           => /\ WellFormed(written[id])
              /\ \E sent \in BOOLEAN :
                    <<f>> = ResultFrames(sent, JsonLoads(written[id]))

\* C10: with two requests in flight, each coroutine sends commands on, and
\* deletes, only result:<own id> and stream:<own id>; its frames all come from
\* its own id; and the keys of an id hold what its own worker wrote, less what
\* its own coroutine deleted, whatever the other request does (failure and
\* timeout included).
C10_Isolation ==
    \A id \in Ids :
        /\ accessed[id] \subseteq OwnKeys(id)
        /\ deleted[id] \subseteq OwnKeys(id)
        /\ OwnFrames(id)
        /\ redis_str[ResultKey(id)] =
              IF ResultKey(id) \in deleted[id] THEN None ELSE written[id]
        /\ redis_list[StreamKey(id)] =
              IF StreamKey(id) \in deleted[id] THEN <<>> ELSE appended[id]

C10_Witness ==
    \E a, b \in Ids :
        /\ a # b
        /\ kind[a] = "stream" /\ kind[b] = "stream"
        /\ status[a] = "done" /\ Len(out[a]) >= 2
        /\ status[b] \in {"failed", "timedout"} /\ Len(out[b]) >= 2

\* ------------------------------------------------------------ error paths
\* C11: the timeout outcome differs from every outcome of a Result the worker
\* wrote: a wait that read a Result does not return {"error": "Request
\* timeout"}, and a relay that read a Result has emitted no frame whose JSON
\* text is that of the timeout frame.
C11_TimeoutDistinct ==
    \A id \in Ids :
        result[id] # None
        => /\ (kind[id] = "wait" /\ "returned" \in DOMAIN ret[id])
              => ret[id].returned # TimeoutResult
           /\ kind[id] = "stream"
              => \A n \in 1..Len(out[id]) :
                    out[id][n].data # JsonDumps(TimeoutResult)

\* C12: a clean-up delete that raises is not fatal: a wait that read a Result
\* returns it, and a relay that read a Result closes normally with no
\* wrapped-error frame.
C12_CleanUpNeverFatal ==
    \A id \in Ids :
        (Closed(id) /\ result[id] # None)
        => /\ kind[id] = "wait" => ret[id] = [returned |-> result[id]]
           /\ kind[id] = "stream"
              => /\ status[id] = "done"
                 /\ \A n \in 1..Len(out[id]) : out[id][n].site # "exception"

\* The chunks of stream:<id> the for loop of the relay has been through.
Processed(id) ==
    SubSeq(appended[id], 1, Len(fetched[id]) - Len(new_chunks[id]))
IsChunkFrame(f) == f.site = "chunk"
DecodeErrorFrame == Frame("exception", StreamingError("JSONDecodeError"))

\* C13 (as stated): once the relay has been through an undecodable chunk of
\* stream:<id> it has stopped: it is closed, failed, and its last frame is the
\* wrapped decode error.
C13_UndecodableTerminal ==
    \A id \in Ids :
        (kind[id] = "stream" /\ ~AllWellFormed(Processed(id)))
        => /\ Closed(id) /\ status[id] = "failed"
           /\ out[id] # <<>>
           /\ out[id][Len(out[id])] = DecodeErrorFrame

\* C13 (amended): an undecodable Result is terminal: the relay never consumes
\* it (no Result frame, no delete), and the wrapped decode-error frame is
\* emitted for an undecodable Result only, as the last frame, after chunk
\* frames only, by a relay that ends failed without clean-up.  An undecodable
\* chunk is skipped: the chunk frames emitted are exactly the decodable chunks
\* the relay has been through, in list order.
C13_Undecodable ==
    \A id \in Ids :
        kind[id] = "stream"
        => /\ \A n \in 1..Len(out[id]) :
                 out[id][n] = DecodeErrorFrame
                 => /\ n = Len(out[id])
                    /\ written[id] # None /\ ~WellFormed(written[id])
                    /\ Closed(id) /\ status[id] = "failed"
                    /\ \A m \in 1..(n - 1) : IsChunkFrame(out[id][m])
           /\ (written[id] # None /\ ~WellFormed(written[id]))
              => /\ result[id] = None /\ deleted[id] = {}
                 /\ status[id] # "done"
                 /\ redis_str[ResultKey(id)] = written[id]
                 /\ \A n \in 1..Len(out[id]) :
                       out[id][n].site \in {"chunk", "exception", "timeout"}
           /\ SelectSeq(out[id], IsChunkFrame)
                 = ChunkFrames(SelectSeq(Processed(id), WellFormed))

\* C13 witness: an undecodable first chunk was skipped, the second chunk was
\* relayed, and the relay ended by reading the Result.
C13_Witness ==
    \E id \in Ids :
        /\ kind[id] = "stream" /\ status[id] = "done"
        /\ Len(appended[id]) >= 2
        /\ ~WellFormed(appended[id][1]) /\ WellFormed(appended[id][2])
        /\ out[id][1] = Frame("chunk", JsonLoads(appended[id][2]))

TransportErrorFrame == Frame("exception", StreamingError("ConnectionError"))
Enqueued(id) ==
    \/ id \in claimed
    \/ \E n \in 1..Len(redis_list[TasksKey]) : redis_list[TasksKey][n].id = id

\* C14 (as stated): a broker command that raises during a poll tick does not
\* end the wait: no call that read no Result has ended on a transport error.
C14_RetriesNextTick ==
    \A id \in Ids :
        (Closed(id) /\ result[id] = None)
        => /\ ret[id] # [raised |-> "ConnectionError"]
           /\ \A n \in 1..Len(out[id]) : out[id][n] # TransportErrorFrame

C14_Ended ==
    \A id \in Ids :
        /\ status[id] = "failed"
           => /\ Closed(id)
              /\ kind[id] = "wait" => "raised" \in DOMAIN ret[id]
              /\ kind[id] = "stream"
                 => /\ out[id] # <<>>
                    /\ out[id][Len(out[id])].site = "exception"
        /\ kind[id] = "rejected"
           => /\ pc[id] = "idle" /\ ~Enqueued(id)
              /\ accessed[id] = {} /\ out[id] = <<>> /\ ret[id] = None

C14_Step ==
    \A id \in Ids :
        /\ Closed(id)
           => /\ pc'[id] = pc[id] /\ status'[id] = status[id]
              /\ out'[id] = out[id] /\ ret'[id] = ret[id]
              /\ accessed'[id] = accessed[id] /\ deleted'[id] = deleted[id]
        /\ kind[id] = "rejected" => kind'[id] = "rejected"
        /\ (pc[id] # "sleep" /\ pc'[id] = "sleep")
           => /\ pc[id] = IF kind[id] = "wait" THEN "poll" ELSE "get"
              /\ ~Truthy(redis_str[ResultKey(id)])

\* C14 (amended): a broker command that raises during a poll tick ends the
\* call: a failed wait has raised, a failed relay has the wrapped error as its
\* last frame, and a closed call sends no further command and emits nothing;
\* a tick goes on to the sleep only from a get that found no Result.  An
\* enqueue that raises leaves no job and no polling for that id.
C14_FaultEndsCall == []C14_Ended /\ [][C14_Step]_vars

\* C14 witness: a wait ended by a transport error before its deadline, and the
\* Result written for it sits undelivered in the broker.
C14_Witness ==
    \E id \in Ids :
        /\ kind[id] = "wait" /\ status[id] = "failed"
        /\ ret[id] = [raised |-> "ConnectionError"] /\ result[id] = None
        /\ elapsed[id] < timeout[id]
        /\ WellFormed(written[id]) /\ ~intime[id]
        /\ redis_str[ResultKey(id)] = written[id]

IsExceptionFrame(f) == f.site = "exception"

\* C15: a relay ended by an exception has emitted exactly one wrapped-error
\* frame, as its last frame, and has deleted nothing: result:<id> and
\* stream:<id> hold what the worker wrote.
C15_FailedLeavesBroker ==
    \A id \in Ids :
        (kind[id] = "stream" /\ status[id] = "failed")
        => /\ Len(SelectSeq(out[id], IsExceptionFrame)) = 1
           /\ IsExceptionFrame(out[id][Len(out[id])])
           /\ deleted[id] = {}
           /\ redis_str[ResultKey(id)] = written[id]
           /\ redis_list[StreamKey(id)] = appended[id]

\* What holds of C15 in every run: one wrapped-error frame, the last; and
\* nothing deleted unless the exception came from delete(stream_key), after
\* delete(result_key) had been done.
C15_ExceptFailedCleanUp ==
    \A id \in Ids :
        (kind[id] = "stream" /\ status[id] = "failed")
        => /\ Len(SelectSeq(out[id], IsExceptionFrame)) = 1
           /\ IsExceptionFrame(out[id][Len(out[id])])
           /\ redis_list[StreamKey(id)] = appended[id]
           /\ \/ deleted[id] = {} /\ redis_str[ResultKey(id)] = written[id]
              \/ /\ deleted[id] = {ResultKey(id)} /\ result[id] # None
                 /\ out[id][Len(out[id])] = TransportErrorFrame

\* The relay for id has emitted a chunk and then read a Result without error
\* whose data has no true stop flag.
SentNoStop(id) ==
    /\ kind[id] = "stream" /\ chunks_sent[id]
    /\ result[id] # None /\ ~HasError(result[id])
    /\ ~Get(Get(result[id], "data", EmptyObject), "stop", FALSE)

\* C16 (as stated): after chunks and a Result without stop the relay emits
\* nothing further and stays open, polling, until the timeout: it does not go
\* to its clean-up, and when it is closed it has timed out.
C16_HangsUntilTimeout ==
    \A id \in Ids :
        SentNoStop(id)
        => /\ pc[id] \notin {"del_result", "del_stream"}
           /\ Closed(id) => status[id] = "timedout"
           /\ \A n \in 1..(Len(out[id]) - 1) : IsChunkFrame(out[id][n])

\* C16 (amended): after chunks and a Result without stop the relay emits no
\* frame for the Result and does not poll again: it is in its clean-up or
\* closed, never timed out; having returned, its frames are chunk frames only
\* and both keys are deleted; the only frame that can follow the chunk frames
\* is the wrapped error of a clean-up delete that raised.
C16_SilentDone ==
    \A id \in Ids :
        SentNoStop(id)
        => /\ pc[id] \in {"del_result", "del_stream", "closed"}
           /\ status[id] \in {"none", "done", "failed"}
           /\ elapsed[id] - Pauses(id) < timeout[id]
           /\ \A n \in 1..Len(out[id]) :
                 \/ IsChunkFrame(out[id][n])
                 \/ /\ n = Len(out[id]) /\ status[id] = "failed"
                    /\ out[id][n] = TransportErrorFrame
           /\ status[id] = "done"
              => /\ redis_str[ResultKey(id)] = None
                 /\ redis_list[StreamKey(id)] = <<>>

C16_Witness ==
    \E id \in Ids :
        /\ SentNoStop(id) /\ status[id] = "done"
        /\ result[id] = [data |-> [text |-> "42"]]
        /\ out[id] = ChunkFrames(appended[id])

\* The frame of the specification: the data's metadata passed through, with
\* an empty content and stop = true.
Passthrough(d) ==
    [k \in DOMAIN d \cup {"content", "stop"} |->
        IF k = "content" THEN <<>> ELSE IF k = "stop" THEN TRUE ELSE d[k]]

\* C17 (as stated): the synthetic final frame carries an empty content,
\* stop = true and exactly the metadata of the Result's data: for the Result
\* {data: {stop: true, slot_id: 2}} it is {content: "", slot_id: 2, stop: true}.
C17_PassthroughOnly ==
    \A id \in Ids :
        \A n \in 1..Len(out[id]) :
            out[id][n].site = "final"
            => /\ out[id][n].data = JsonDumps(Passthrough(result[id].data))
               /\ written[id] = JsonDumps([data |-> [stop |-> TRUE, slot_id |-> 2]])
                  => out[id][n].data =
                        JsonDumps([content |-> <<>>, slot_id |-> 2, stop |-> TRUE])

\* C17 (amended): the synthetic final frame follows chunk frames only and has
\* exactly four fields: an empty content, stop = true, and multimodal and
\* slot_id, taken from the Result's data when it has them and else false and
\* 0; no other field of the data is passed through.  For the Result
\* {data: {stop: true, slot_id: 2}} it is
\* {content: "", multimodal: false, slot_id: 2, stop: true}.
C17_FinalFrame ==
    \A id \in Ids :
        \A n \in 1..Len(out[id]) :
            out[id][n].site = "final"
            => LET f == JsonLoads(out[id][n].data)
                   d == result[id].data
               IN  /\ n >= 2 /\ \A m \in 1..(n - 1) : IsChunkFrame(out[id][m])
                   /\ result[id] = JsonLoads(written[id])
                   /\ d.stop = TRUE
                   /\ DOMAIN f = {"content", "multimodal", "slot_id", "stop"}
                   /\ f.content = <<>> /\ f.stop = TRUE
                   /\ f.multimodal =
                         IF "multimodal" \in DOMAIN d THEN d.multimodal ELSE FALSE
                   /\ f.slot_id = IF "slot_id" \in DOMAIN d THEN d.slot_id ELSE 0
                   /\ d = [stop |-> TRUE, slot_id |-> 2]
                      => f = [content |-> <<>>, multimodal |-> FALSE,
                              slot_id |-> 2, stop |-> TRUE]
                   /\ d = [stop |-> TRUE, model |-> "m"]
                      => f = [content |-> <<>>, multimodal |-> FALSE,
                              slot_id |-> 0, stop |-> TRUE]

\* C17 witness: the scenario: two chunks relayed, then the Result
\* {data: {stop: true, slot_id: 2}}, and the relay has returned.
C17_Witness ==
    \E id \in Ids :
        /\ kind[id] = "stream" /\ status[id] = "done"
        /\ Len(appended[id]) = 2 /\ AllWellFormed(appended[id])
        /\ written[id] = JsonDumps([data |-> [stop |-> TRUE, slot_id |-> 2]])
        /\ out[id] = ChunkFrames(appended[id])
                      \o <<Frame("final", [content |-> <<>>, multimodal |-> FALSE,
                                           slot_id |-> 2, stop |-> TRUE])>>

\* The job records for id the gateway has pushed: those still in gpu_tasks
\* and the one a worker popped.
Jobs(id) ==
    Len(SelectSeq(redis_list[TasksKey], LAMBDA j : j.id = id))
    + (IF id \in claimed THEN 1 ELSE 0)

IsTimeoutFrame(f) == f.site = "timeout"

\* How a relay that has closed its stream ended: by the return of line 301
\* after reading a Result, past the deadline, or in the handler of line 305.
C19_Terminal ==
    \A id \in Ids :
        kind[id] = "stream"
        => /\ Closed(id) <=> status[id] \in {"done", "timedout", "failed"}
           /\ ~Closed(id) => status[id] = "none"
           /\ status[id] = "done"
              => /\ result[id] # None
                 /\ deleted[id] = {ResultKey(id), StreamKey(id)}
                 /\ \A n \in 1..Len(out[id]) :
                       out[id][n].site \notin {"timeout", "exception"}
           /\ status[id] = "timedout"
              => /\ result[id] = None /\ Expired(id)
                 /\ IsTimeoutFrame(out[id][Len(out[id])])
                 /\ Len(SelectSeq(out[id], IsTimeoutFrame)) = 1
                 /\ SelectSeq(out[id], IsExceptionFrame) = <<>>
           /\ status[id] = "failed"
              => /\ IsExceptionFrame(out[id][Len(out[id])])
                 /\ Len(SelectSeq(out[id], IsExceptionFrame)) = 1
                 /\ SelectSeq(out[id], IsTimeoutFrame) = <<>>

\* C19: every relay closes its stream, in exactly one of the states done
\* (Result read, keys deleted), timed out (deadline passed, timeout frame) or
\* failed (exception raised, wrapped-error frame), and once closed it stays
\* closed and emits nothing; whatever the worker does, a worker that goes on
\* appending chunks without ever writing a Result included.
C19_Terminates ==
    /\ []C19_Terminal
    /\ [][\A id \in Ids :
            Closed(id) => /\ pc'[id] = pc[id] /\ status'[id] = status[id]
                          /\ out'[id] = out[id]]_vars
    /\ \A id \in Ids : (kind[id] = "stream") ~> (kind[id] = "stream" /\ Closed(id))

\* C19 witness: the worker appended chunk after chunk and never wrote a
\* Result; the relay relayed them all and closed on its deadline.
C19_Witness ==
    \E id \in Ids :
        /\ kind[id] = "stream" /\ status[id] = "timedout"
        /\ written[id] = None
        /\ Len(appended[id]) = MaxChunks /\ AllWellFormed(appended[id])
        /\ out[id] = ChunkFrames(appended[id]) \o <<Frame("timeout", TimeoutResult)>>

\* C20: wait_for_result sends commands on result:<id> only and deletes
\* nothing else: the chunks a worker appended for a job served by a wait are
\* all in stream:<id>, result:<id> holds the worker's Result until the wait
\* has read and deleted it, and a wait that timed out has deleted nothing.
C20_WaitTouchesResultOnly ==
    \A id \in Ids :
        kind[id] = "wait"
        => /\ accessed[id] \subseteq {ResultKey(id)}
           /\ deleted[id] \subseteq {ResultKey(id)}
           /\ redis_list[StreamKey(id)] = appended[id]
           /\ redis_str[ResultKey(id)] =
                 IF ResultKey(id) \in deleted[id] THEN None ELSE written[id]
           /\ ResultKey(id) \in deleted[id] => result[id] # None
           /\ status[id] = "timedout"
              => deleted[id] = {} /\ result[id] = None
           /\ out[id] = <<>>

\* C20 witness: a wait returned the Result and the chunks the worker had
\* appended for the job are still in the broker.
C20_Witness ==
    \E id \in Ids :
        /\ kind[id] = "wait" /\ status[id] = "done"
        /\ deleted[id] = {ResultKey(id)}
        /\ Len(appended[id]) = MaxChunks
        /\ redis_list[StreamKey(id)] = appended[id]
====
